---------------------------- MODULE Spec2Model ----------------------------
(***************************************************************************)
(* A model of the kOS kitchen: the Kitchen Engine's recipe runs            *)
(* (kitchen/core/kitchen_engine.py), the Step Executor                     *)
(* (kitchen/core/step_executor.py) and the pantry's validated registration *)
(* (kitchen/pantry/operations/pantry_system.py and kitchen/pantry/core).   *)
(*                                                                         *)
(* Each component has its own specification over its own variables, the    *)
(* other components standing idle: SpecEngine, SpecExecutor, SpecPantry,   *)
(* SpecTracker, SpecAccess, SpecDiscovery, SpecParser and SpecContext.     *)
(***************************************************************************)
EXTENDS Integers, Sequences, FiniteSets, TLC

VARIABLES
    \* ---- KitchenEngine (kitchen_engine.py) ----
    is_running,         \* self.is_running
    active_recipes,     \* self.active_recipes: execution_id -> dict
    execution_history,  \* self.execution_history: list of dicts
    now,                \* datetime.utcnow(), to the second
    pc,                 \* where execute_recipe stands: "idle", "loop", "update"
    run,                \* execute_recipe's locals
    ret,                \* what the last call of execute_recipe returned
    \* ---- StepExecutor.execute_step (step_executor.py) ----
    ex_step,            \* the step argument
    ex_context,         \* the context argument
    ex_outcome,         \* how the call ended
    \* ---- the pantry (kitchen/pantry) ----
    store,              \* the ingredients table of pantry.db: id -> row
    last_call,          \* the last register_ingredient call and how it ended
    \* ---- DependencyTracker (kitchen/pantry/core/dependency_tracker.py) ----
    dep_call,           \* the last DependencyTracker call and how it ended
    \* ---- AccessControl (kitchen/pantry/core/access_control.py) ----
    ac_call,            \* the last AccessControl call and how it ended
    audit_log,          \* the access audit lines written to the log
    \* ---- DiscoveryEngine (kitchen/pantry/core/discovery_engine.py) ----
    fs,                 \* the directory tree under the discovery path
    fs_version,         \* how often the tree was changed
    disc_runs,          \* what each discover_ingredients call returned
    \* ---- RecipeParser (kitchen/core/recipe_parser.py) ----
    parse_data,         \* what json.load read from the recipe file
    parse_outcome,      \* how RecipeParser.parse ended
    \* ---- ContextManager (kitchen/pantry/operations/context_manager.py) ----
    cm_pc,              \* where execute_recipe stands: idle / loop / done / raised
    cm_context,         \* execute_recipe's local context
    cm_steps,           \* the steps of the recipe not yet executed
    cm_results,         \* len(results)
    cm_prune_call       \* the last prune_context call and how it ended

engine_vars == <<is_running, active_recipes, execution_history, now, pc, run, ret>>

executor_vars == <<ex_step, ex_context, ex_outcome>>

pantry_vars == <<store, last_call>>

tracker_vars == <<dep_call>>

access_vars == <<ac_call, audit_log>>

discovery_vars == <<fs, fs_version, disc_runs>>

parser_vars == <<parse_data, parse_outcome>>

context_vars == <<cm_pc, cm_context, cm_steps, cm_results, cm_prune_call>>

vars == <<engine_vars, executor_vars, pantry_vars, tracker_vars, access_vars, discovery_vars,
    parser_vars, context_vars>>

\* what a call on one component leaves alone: the other components
not_engine_vars == <<executor_vars, pantry_vars, tracker_vars, access_vars, discovery_vars,
    parser_vars, context_vars>>

not_executor_vars == <<engine_vars, pantry_vars, tracker_vars, access_vars, discovery_vars,
    parser_vars, context_vars>>

not_pantry_vars == <<engine_vars, executor_vars, tracker_vars, access_vars, discovery_vars,
    parser_vars, context_vars>>

not_tracker_vars == <<engine_vars, executor_vars, pantry_vars, access_vars, discovery_vars,
    parser_vars, context_vars>>

not_access_vars == <<engine_vars, executor_vars, pantry_vars, tracker_vars, discovery_vars,
    parser_vars, context_vars>>

not_discovery_vars == <<engine_vars, executor_vars, pantry_vars, tracker_vars, access_vars,
    parser_vars, context_vars>>

not_parser_vars == <<engine_vars, executor_vars, pantry_vars, tracker_vars, access_vars,
    discovery_vars, context_vars>>

not_context_vars == <<engine_vars, executor_vars, pantry_vars, tracker_vars, access_vars,
    discovery_vars, parser_vars>>

-----------------------------------------------------------------------------
(* Bounds of the model.                                                    *)

MaxSteps == 2       \* steps in a recipe document
MaxRuns == 1        \* recipe runs recorded in execution_history
MaxClock == 1       \* seconds the clock may advance
MaxIdLen == 2       \* characters in an ingredient id
MaxVariations == 1  \* fields in which an ingredient differs from BaseIngredient
MaxStore == 2       \* rows in the ingredients table
MaxDeps == 2        \* entries in the dependencies list of a stored ingredient
RecursionLimit == 3 \* nested calls the interpreter allows (sys.getrecursionlimit())
MaxAudit == 1       \* lines in the access audit log
MaxFiles == 2       \* *.json files under the discovery path
MaxFsChanges == 1   \* changes made to the tree between discoveries
MaxDiscoveries == 2 \* calls of discover_ingredients
MaxParsedSteps == 2 \* steps in a recipe file given to RecipeParser
MaxCmSteps == 3     \* steps in a recipe run by ContextManager.execute_recipe
MaxKeepKeys == 2    \* entries in the keep_keys list of a prune_context call

-----------------------------------------------------------------------------
(* Recipe documents, as json.load returns them to the engine.              *)

Absent == "<absent>"

StepNames == <<"s1", "s2", "s3", "s4">>

RecipeIds == {"r1", "r2"}

\* the values a document may carry under a step's "on_failure" key
OnFailureValues == {Absent, "abort", "continue", "retry"}

\* a step dict; a key the document leaves out is Absent
StepDocs(i) ==
    [name : {StepNames[i], Absent},
     operation : {"tools.op", Absent},
     on_failure : OnFailureValues]

StepSeqs ==
    UNION {{s \in [1..n -> UNION {StepDocs(i) : i \in 1..n}] :
               \A i \in 1..n : s[i] \in StepDocs(i)} : n \in 0..MaxSteps}

TopKeys == {"id", "name", "description", "steps"}

\* what a document gets wrong: top-level keys it lacks, steps that lack a
\* name or an operation, steps whose on_failure is no policy
Defects(doc) ==
    {<<"top", k>> : k \in TopKeys \ doc.keys}
    \cup {<<"name", i>> : i \in {j \in DOMAIN doc.steps : doc.steps[j].name = Absent}}
    \cup {<<"operation", i>> : i \in {j \in DOMAIN doc.steps : doc.steps[j].operation = Absent}}
    \cup {<<"on_failure", i>> : i \in {j \in DOMAIN doc.steps : doc.steps[j].on_failure = "retry"}}

\* the documents the recipes directory may hold: every document with at most
\* one defect
RecipeDocs ==
    {doc \in [keys : SUBSET TopKeys, steps : StepSeqs] :
        /\ ("steps" \notin doc.keys => doc.steps = <<>>)
        /\ Cardinality(Defects(doc)) <= 1}

NotFound == [keys |-> {}, steps |-> <<>>]

-----------------------------------------------------------------------------
(* KitchenEngine                                                           *)

\* _validate_recipe: the list of errors
ValidateRecipeErrors(recipe) ==
    {<<"Missing required field", k>> : k \in TopKeys \ recipe.keys}
    \cup {<<"missing 'operation' field", i>> :
            i \in {j \in DOMAIN recipe.steps : recipe.steps[j].operation = Absent}}

\* ContextManager.build_context: the keys of a fresh context
BuildContext(recipe_id, t) ==
    (<<"recipe_id">> :> recipe_id) @@ (<<"timestamp">> :> t)
    @@ (<<"operations">> :> {}) @@ (<<"skills">> :> {})
    @@ (<<"modules">> :> {}) @@ (<<"data">> :> {})

\* f"{recipe_id}_{datetime.utcnow().strftime('%Y%m%d_%H%M%S')}"
ExecutionId(recipe_id, t) == <<recipe_id, t>>

Put(f, k, v) == [x \in DOMAIN f \cup {k} |-> IF x = k THEN v ELSE f[x]]

NoRun == [recipe_id |-> Absent, recipe |-> NotFound, execution_id |-> <<Absent, 0>>,
          context |-> <<>>, results |-> <<>>]

NoRet == [status |-> "none"]

\* {"status": "error", "message": ...}
ErrorRet == [status |-> "error"]

\* the engine after __init__
NewEngine ==
    /\ is_running = FALSE
    /\ active_recipes = <<>>
    /\ execution_history = <<>>
    /\ now = 0
    /\ pc = "idle"
    /\ run = NoRun
    /\ ret = NoRet

\* the wall clock moves on between two calls of the engine
Tick ==
    /\ pc = "idle"
    /\ now < MaxClock
    /\ now' = now + 1
    /\ UNCHANGED <<is_running, active_recipes, execution_history, pc, run, ret>>
    /\ UNCHANGED not_engine_vars

\* start(): the registry's discovery and the context manager's initialisation
\* are calls into collaborators, which return or raise; a raise leaves
\* is_running as it was
Start ==
    /\ pc = "idle"
    /\ \E ok \in BOOLEAN :
        IF ok
        THEN is_running' = TRUE
        ELSE is_running' = is_running
    /\ UNCHANGED <<active_recipes, execution_history, now, pc, run, ret>>
    /\ UNCHANGED not_engine_vars

\* _execute_step: the registry lookup and operation.execute are calls into
\* collaborators; the step's result is "success" when both return and "error"
\* when the operation is not found or anything raises
StepResult(status, step) == [status |-> status, step |-> step]

StepStatuses == {"success", "error"}

\* a loop that does not break
BreaksLoop_Never(step_result) == FALSE

\* lines 279-280: the loop over the steps breaks on a step result of "error"
BreaksLoop(step_result) == step_result.status = "error"

\* any() where the source has all()
FinalStatus_Any(results) ==
    IF \E i \in DOMAIN results : results[i].status = "success"
    THEN "completed" ELSE "failed"

\* line 283
FinalStatus(results) ==
    IF \A i \in DOMAIN results : results[i].status = "success"
    THEN "completed" ELSE "failed"

\* execute_recipe up to the loop (lines 232-271)
ExecuteRecipeBegin ==
    /\ pc = "idle"
    /\ \E recipe_id \in RecipeIds :
        \/ /\ ~is_running
           /\ ret' = ErrorRet
           /\ UNCHANGED <<is_running, active_recipes, execution_history, now, pc, run>>
        \/ /\ is_running
           /\ \E loaded \in RecipeDocs \cup {NotFound} :
                IF loaded = NotFound \/ ValidateRecipeErrors(loaded) # {}
                THEN \* "Recipe not found", "Recipe validation failed"
                     /\ ret' = ErrorRet
                     /\ UNCHANGED <<is_running, active_recipes, execution_history,
                                    now, pc, run>>
                ELSE \E built \in BOOLEAN :
                     IF ~built
                     THEN \* build_context raised: the handler's except returns the error
                          /\ ret' = ErrorRet
                          /\ UNCHANGED <<is_running, active_recipes, execution_history,
                                         now, pc, run>>
                     ELSE /\ Len(execution_history) < MaxRuns
                          /\ LET context == BuildContext(recipe_id, now)
                                 execution_id == ExecutionId(recipe_id, now)
                             IN /\ run' = [recipe_id |-> recipe_id, recipe |-> loaded,
                                           execution_id |-> execution_id,
                                           context |-> context, results |-> <<>>]
                                /\ active_recipes' = Put(active_recipes, execution_id,
                                       [recipe_id |-> recipe_id, start_time |-> now,
                                        status |-> "running", context |-> context])
                                /\ pc' = IF loaded.steps = <<>> THEN "update" ELSE "loop"
                          /\ ret' = NoRet
                          /\ UNCHANGED <<is_running, execution_history, now>>
    /\ UNCHANGED not_engine_vars

\* a loop that takes the steps from the last to the first
NextStepIndex_LastFirst(results, steps) == Len(steps) - Len(results)

\* line 275: the for loop takes the steps in the order of the list, one for
\* each result appended so far
NextStepIndex(results, steps) == Len(results) + 1

\* one iteration of the loop over recipe["steps"] (lines 275-280)
ExecuteRecipeStep ==
    /\ pc = "loop"
    /\ LET i == NextStepIndex(run.results, run.recipe.steps)
           step == run.recipe.steps[i]
       IN \E status \in StepStatuses :
            LET step_result == StepResult(status, step) IN
            /\ run' = [run EXCEPT !.results = Append(@, step_result)]
            /\ pc' = IF BreaksLoop(step_result)
                        \/ Len(run.results) + 1 = Len(run.recipe.steps)
                     THEN "update" ELSE "loop"
    /\ UNCHANGED <<is_running, active_recipes, execution_history, now, ret>>
    /\ UNCHANGED not_engine_vars

\* execute_recipe after the loop (lines 282-308)
ExecuteRecipeFinish ==
    /\ pc = "update"
    /\ LET final_status == FinalStatus(run.results)
           entry == active_recipes[run.execution_id]
           done == Put(Put(Put(entry, "status", final_status),
                           "end_time", now), "results", run.results)
       IN /\ active_recipes' = [active_recipes EXCEPT ![run.execution_id] = done]
          /\ execution_history' = Append(execution_history,
                 [execution_id |-> run.execution_id, recipe_id |-> run.recipe_id,
                  start_time |-> done.start_time, end_time |-> done.end_time,
                  status |-> final_status, results |-> run.results])
          /\ ret' = [status |-> "success", execution_id |-> run.execution_id,
                     recipe_id |-> run.recipe_id, final_status |-> final_status,
                     results |-> run.results]
    /\ pc' = "idle"
    /\ UNCHANGED <<is_running, now, run>>
    /\ UNCHANGED not_engine_vars

\* what stop_recipe does to an entry of active_recipes (lines 418-419)
Stopped(entry, t) == Put(Put(entry, "status", "stopped"), "end_time", t)

ExecutionIds == RecipeIds \X (0..MaxClock)

\* stop_recipe(execution_id)
StopRecipe ==
    /\ pc = "idle"
    /\ \E execution_id \in ExecutionIds :
        IF execution_id \notin DOMAIN active_recipes
        THEN UNCHANGED active_recipes
        ELSE active_recipes' = [active_recipes EXCEPT
                    ![execution_id] = Stopped(@, now)]
    /\ UNCHANGED <<is_running, execution_history, now, pc, run, ret>>
    /\ UNCHANGED not_engine_vars

\* stop(): stops every entry of active_recipes, then marks the engine stopped
Stop ==
    /\ pc = "idle"
    /\ active_recipes' = [id \in DOMAIN active_recipes |-> Stopped(active_recipes[id], now)]
    /\ is_running' = FALSE
    /\ UNCHANGED <<execution_history, now, pc, run, ret>>
    /\ UNCHANGED not_engine_vars


-----------------------------------------------------------------------------
(* StepExecutor                                                             *)
(*                                                                          *)
(* Values are tagged with their Python type.  A str is the sequence of its  *)
(* characters; a word without a brace or a blank in it stands as one        *)
(* character.                                                               *)

IntV(n) == [t |-> "int", v |-> n]
StrV(s) == [t |-> "str", v |-> s]
NoneV == [t |-> "none"]

StartsWith(s, prefix) ==
    Len(s) >= Len(prefix) /\ SubSeq(s, 1, Len(prefix)) = prefix

EndsWith(s, suffix) ==
    Len(s) >= Len(suffix) /\ SubSeq(s, Len(s) - Len(suffix) + 1, Len(s)) = suffix

RECURSIVE LStrip(_, _)
LStrip(s, chars) ==
    IF s # <<>> /\ Head(s) \in chars THEN LStrip(Tail(s), chars) ELSE s

RECURSIVE RStrip(_, _)
RStrip(s, chars) ==
    IF s # <<>> /\ s[Len(s)] \in chars THEN RStrip(SubSeq(s, 1, Len(s) - 1), chars) ELSE s

\* str.strip(chars)
Strip(s, chars) == RStrip(LStrip(s, chars), chars)

\* line 122: isinstance(value, str) and value.startswith('{{') and value.endswith('}}')
IsReference(value) ==
    /\ value.t = "str"
    /\ StartsWith(value.v, <<"{", "{">>)
    /\ EndsWith(value.v, <<"}", "}">>)

\* line 123: value.strip('{} ')
ContextKey(value) == Strip(value.v, {"{", "}", " "})

\* the parameters whose reference is not a key of the context
Unresolved(params, context) ==
    {key \in DOMAIN params :
        IsReference(params[key]) /\ ContextKey(params[key]) \notin DOMAIN context}

\* a resolution that yields None for a missing key where the source raises
ResolveParams_NoneForMissing(params, context) ==
    [ok |-> TRUE,
     resolved |-> [key \in DOMAIN params |->
        IF IsReference(params[key])
        THEN IF ContextKey(params[key]) \in DOMAIN context
             THEN context[ContextKey(params[key])] ELSE NoneV
        ELSE params[key]]]

\* _resolve_params: the resolved dict, or KeyError
ResolveParams(params, context) ==
    IF Unresolved(params, context) # {}
    THEN [ok |-> FALSE, exc |-> "KeyError"]
    ELSE [ok |-> TRUE,
          resolved |-> [key \in DOMAIN params |->
             IF IsReference(params[key])
             THEN context[ContextKey(params[key])]
             ELSE params[key]]]

\* The pantry: what PantryManager.discover_ingredients registered.  add and
\* fail_task are the two ingredients of the module's own example; exit_task is
\* a callable that ends the interpreter (sys.exit).
Signature(ingredient_func) ==
    IF ingredient_func = "add" THEN {"a", "b"} ELSE {}

PantryRegistry ==
    [name \in {"test_tasks.add", "test_tasks.fail_task", "test_tasks.exit_task"} |->
        CASE name = "test_tasks.add" -> "add"
          [] name = "test_tasks.fail_task" -> "fail_task"
          [] name = "test_tasks.exit_task" -> "exit_task"]

\* PantryManager.get_ingredient: the callable, or None
GetIngredient(name) ==
    IF name \in DOMAIN PantryRegistry THEN PantryRegistry[name] ELSE "None"

Returned(value) == [raised |-> "none", value |-> value]
Raised(exc) == [raised |-> exc]

\* ingredient_func(**valid_params)
Call(ingredient_func, kwargs) ==
    CASE ingredient_func = "fail_task" -> Raised("ValueError")
      [] ingredient_func = "exit_task" -> Raised("SystemExit")
      [] ingredient_func = "add" ->
            IF DOMAIN kwargs # {"a", "b"}
            THEN Raised("TypeError")        \* a required argument is missing
            ELSE IF kwargs["a"].t = "int" /\ kwargs["b"].t = "int"
            THEN Returned(IntV(kwargs["a"].v + kwargs["b"].v))
            ELSE IF kwargs["a"].t = "str" /\ kwargs["b"].t = "str"
            THEN Returned(StrV(kwargs["a"].v \o kwargs["b"].v))
            ELSE Raised("TypeError")        \* unsupported operand types

\* the classes derived from Exception; SystemExit derives from BaseException only
ExceptionClasses == {"ValueError", "TypeError", "KeyError"}

AllRaised == ExceptionClasses \cup {"SystemExit"}

\* an except clause that names one class only
CaughtByExcept_KeyErrorOnly(exc) == exc = "KeyError"

\* line 98: except Exception
CaughtByExcept(exc) == exc \in ExceptionClasses

\* StepResult(success, message, output=None); invoked tells whether the
\* ingredient was called, context is the caller's dict after the call
StepResultOf(success, message, output, invoked, context) ==
    [kind |-> "returned", success |-> success, message |-> message,
     output |-> output, invoked |-> invoked, context |-> context]

\* the exception leaves execute_step
Propagated(exc, invoked, context) ==
    [kind |-> "raised", exc |-> exc, invoked |-> invoked, context |-> context]

\* lines 85-89: only the parameters the ingredient's signature names
ValidParams(ingredient_func, resolved_params) ==
    [key \in DOMAIN resolved_params \cap Signature(ingredient_func) |->
        resolved_params[key]]

\* execute_step(step, context)
ExecuteStepOutcome(step, context) ==
    LET ingredient_func == GetIngredient(step.ingredient) IN
    IF ingredient_func = "None"
    THEN StepResultOf(FALSE, "not found", NoneV, FALSE, context)
    ELSE LET r == ResolveParams(step.params, context) IN
         IF ~r.ok
         THEN StepResultOf(FALSE, "Failed to resolve context key", NoneV, FALSE, context)
         ELSE LET called == Call(ingredient_func, ValidParams(ingredient_func, r.resolved))
              IN IF called.raised = "none"
                 THEN StepResultOf(TRUE, "executed successfully", called.value, TRUE, context)
                 ELSE IF CaughtByExcept(called.raised)
                 THEN StepResultOf(FALSE, "An error occurred during execution", NoneV,
                                   TRUE, context)
                 ELSE Propagated(called.raised, TRUE, context)

\* the inputs of the calls checked
CtxKeys == {<<"steps.s1.output">>, <<"previous_output">>}

CtxValues == {IntV(15), StrV(<<"x">>)}

Contexts == UNION {[keys -> CtxValues] : keys \in SUBSET CtxKeys}

ParamValues ==
    {IntV(5), IntV(7), StrV(<<"x">>),
     StrV(<<"{", "{", "steps.s1.output", "}", "}">>),
     StrV(<<"{", "{", " ", "previous_output", " ", "}", "}">>),
     StrV(<<"{", "{", "steps.unknown.output", "}", "}">>),
     StrV(<<"{", "{", "previous_output", "}", "}", " ",
            "{", "{", "previous_output", "}", "}">>)}

ParamNames == {"a", "b", "c"}

ParamDicts == UNION {[keys -> ParamValues] : keys \in SUBSET ParamNames}

IngredientNames == DOMAIN PantryRegistry \cup {"test_tasks.unknown"}

Steps == [name : {"s1"}, ingredient : IngredientNames, params : ParamDicts]

Pending == [kind |-> "pending"]

\* no call of execute_step is made
NoExecutorCall ==
    /\ ex_step = [name |-> "s1", ingredient |-> "test_tasks.unknown", params |-> <<>>]
    /\ ex_context = <<>>
    /\ ex_outcome = Pending

ExecuteStep ==
    /\ ex_outcome = Pending
    /\ ex_outcome' = ExecuteStepOutcome(ex_step, ex_context)
    /\ UNCHANGED <<ex_step, ex_context>>
    /\ UNCHANGED not_executor_vars

-----------------------------------------------------------------------------
(* The pantry: ValidationSystem, PantryManager, PantrySystem                *)
(* (kitchen/pantry).  An id or a version is the sequence of its characters. *)

LowerChars == {"a"}
UpperChars == {"A"}
DigitChars == {"1"}

\* s.islower(): at least one cased character, none of them uppercase
IsLower(s) ==
    /\ \E i \in 1..Len(s) : s[i] \in LowerChars
    /\ \A i \in 1..Len(s) : s[i] \notin UpperChars

\* c.isalnum()
IsAlnum(c) == c \in LowerChars \cup UpperChars \cup DigitChars

\* s.isdigit(): not empty, digits only
IsDigit(s) == Len(s) > 0 /\ \A i \in 1..Len(s) : s[i] \in DigitChars

\* c in s
Contains(s, c) == \E i \in 1..Len(s) : s[i] = c

\* a variant of _is_valid_id without the islower() condition
IsValidId_NoCaseCheck(ingredient_id) ==
    /\ Contains(ingredient_id, ".")
    /\ ~Contains(ingredient_id, " ")
    /\ \A i \in 1..Len(ingredient_id) :
          IsAlnum(ingredient_id[i]) \/ ingredient_id[i] \in {".", "_", "-"}

\* ValidationSystem._is_valid_id
IsValidId(ingredient_id) ==
    /\ IsLower(ingredient_id)
    /\ Contains(ingredient_id, ".")
    /\ ~Contains(ingredient_id, " ")
    /\ \A i \in 1..Len(ingredient_id) :
          IsAlnum(ingredient_id[i]) \/ ingredient_id[i] \in {".", "_", "-"}

\* s.split('.')
RECURSIVE Split(_)
Split(s) ==
    IF ~Contains(s, ".")
    THEN <<s>>
    ELSE LET i == CHOOSE k \in 1..Len(s) :
                     s[k] = "." /\ \A j \in 1..(k - 1) : s[j] # "."
         IN <<SubSeq(s, 1, i - 1)>> \o Split(SubSeq(s, i + 1, Len(s)))

\* ValidationSystem._is_valid_version: only parts[:2] are looked at
IsValidVersion(version) ==
    LET parts == Split(version)
    IN Len(parts) >= 2 /\ IsDigit(parts[1]) /\ IsDigit(parts[2])

\* the values of the IngredientCategory enum
IngredientCategory == {"tasks", "tools", "modules", "skills", "configs", "schemas"}

\* PantryManager.get_ingredient: the row, or None
get_ingredient(ingredient_id) ==
    IF ingredient_id \in DOMAIN store THEN store[ingredient_id] ELSE NoneV

\* PantryManager.list_ingredients(category=None)
list_ingredients ==
    {store[ingredient_id] : ingredient_id \in DOMAIN store}

\* validate_ingredient, lines 50-75: the errors
ValidateIngredientErrors(ingredient) ==
    (IF ingredient.id = <<>> THEN {"Missing ingredient ID"}
     ELSE IF ~IsValidId(ingredient.id) THEN {"Invalid ingredient ID format"}
     ELSE {})
    \cup (IF ingredient.name = "" THEN {"Missing ingredient name"} ELSE {})
    \cup (IF ingredient.version = <<>> THEN {"Missing ingredient version"}
          ELSE IF ~IsValidVersion(ingredient.version) THEN {"Invalid version format"}
          ELSE {})
    \cup (IF ingredient.category \notin IngredientCategory
          THEN {"Invalid category"} ELSE {})

\* validate_ingredient, lines 77-80: a warning for each dependency the store
\* does not hold
ValidateIngredientWarnings(ingredient) ==
    {<<"Missing dependency", ingredient.dependencies[i]>> :
        i \in {k \in 1..Len(ingredient.dependencies) :
                 get_ingredient(ingredient.dependencies[k]) = NoneV}}

\* ValidationSystem.validate_ingredient: the ValidationResult, or the
\* exception of a get_ingredient that could not read the database (line 79
\* is in no try block)
ValidateIngredient(ingredient, read_ok) ==
    IF ingredient.dependencies # <<>> /\ ~read_ok
    THEN [raised |-> "sqlite3.Error"]
    ELSE [raised |-> "none",
          valid |-> ValidateIngredientErrors(ingredient) = {},
          errors |-> ValidateIngredientErrors(ingredient),
          warnings |-> ValidateIngredientWarnings(ingredient)]

\* PantryManager.register_ingredient, lines 116-129: what makes the INSERT
\* raise.  The table declares id TEXT PRIMARY KEY and the statement is a
\* plain INSERT.
InsertRaises(ingredient, write_ok) ==
    \/ ~write_ok                                     \* sqlite3.OperationalError
    \/ ingredient.category \notin IngredientCategory \* no .value: AttributeError
    \/ ingredient.id \in DOMAIN store                \* sqlite3.IntegrityError

\* PantryManager.register_ingredient: the table afterwards and the bool
RegisterIngredient(ingredient, write_ok) ==
    IF InsertRaises(ingredient, write_ok)
    THEN [store |-> store, result |-> "False"]
    ELSE [store |-> Put(store, ingredient.id, ingredient), result |-> "True"]

\* the methods of class IngredientRegistry
IngredientRegistryMethods ==
    {"search_ingredients", "get_ingredients_by_category", "get_ingredients_by_tag"}

\* how a call ended: result is "True", "False" or "raised"
CallRecord(op, ingredient, io_failed, validation, result) ==
    [op |-> op, ingredient |-> ingredient, io_failed |-> io_failed,
     validation |-> validation, result |-> result]

NoCall == [op |-> "none"]

\* PantryManager.__init__ on a fresh pantry_root: an empty table
NewPantry ==
    /\ store = <<>>
    /\ last_call = NoCall

\* the ingredients the calls are made with
IdChars == {"a", "A", ".", " "}

Ids == UNION {[1..n -> IdChars] : n \in 0..MaxIdLen}

Names == {"", "n1", "n2"}

Versions ==
    {<<>>, <<"1">>, <<"1", ".", "1">>, <<"1", ".", "a">>,
     <<"1", ".", "1", ".", "a">>}

Categories == {"tools", "tasks", "not a category"}

DependencyLists == {<<>>, <<(<<".", "a">>)>>}

\* the values of the AccessLevel enum
AccessLevel == {"public", "protected", "admin"}

BaseIngredient ==
    [id |-> <<"a", ".">>, name |-> "n1", version |-> <<"1", ".", "1">>,
     category |-> "tools", dependencies |-> <<>>, access_level |-> "public"]

Ingredients ==
    {ingredient \in [id : Ids, name : Names, version : Versions,
                     category : Categories, dependencies : DependencyLists,
                     access_level : AccessLevel] :
        Cardinality({f \in DOMAIN BaseIngredient :
                        ingredient[f] # BaseIngredient[f]}) <= MaxVariations}

\* the table has room for the row
HasRoom(ingredient) ==
    ingredient.id \in DOMAIN store \/ Cardinality(DOMAIN store) < MaxStore

\* PantryManager.register_ingredient(ingredient)
ManagerRegisterIngredient ==
    \E ingredient \in Ingredients, write_ok \in BOOLEAN :
        /\ HasRoom(ingredient)
        /\ LET registered == RegisterIngredient(ingredient, write_ok)
           IN /\ store' = registered.store
              /\ last_call' = CallRecord("manager", ingredient, ~write_ok, "none",
                                         registered.result)
        /\ UNCHANGED not_pantry_vars

\* PantrySystem.register_ingredient(ingredient)
SystemRegisterIngredient ==
    \E ingredient \in Ingredients, read_ok \in BOOLEAN, write_ok \in BOOLEAN :
        /\ HasRoom(ingredient)
        /\ LET validation == ValidateIngredient(ingredient, read_ok)
           IN IF validation.raised # "none"
              THEN /\ store' = store
                   /\ last_call' = CallRecord("system", ingredient, TRUE, "raised",
                                              "raised")
              ELSE IF ~validation.valid
              THEN /\ store' = store
                   /\ last_call' = CallRecord("system", ingredient, FALSE, "invalid",
                                              "False")
              ELSE LET registered == RegisterIngredient(ingredient, write_ok)
                   IN /\ store' = registered.store
                      /\ last_call' =
                            CallRecord("system", ingredient, ~write_ok, "valid",
                                IF registered.result = "False" THEN "False"
                                ELSE IF "update_index" \in IngredientRegistryMethods
                                THEN "True"
                                ELSE "raised")     \* line 67: AttributeError
        /\ UNCHANGED not_pantry_vars

-----------------------------------------------------------------------------
(* DependencyTracker (kitchen/pantry/core/dependency_tracker.py)            *)

\* get_dependencies: the stored list, [] for an id the store does not hold
get_dependencies(ingredient_id) ==
    IF get_ingredient(ingredient_id) # NoneV
    THEN get_ingredient(ingredient_id).dependencies
    ELSE <<>>

\* resolve_recursive, with the closure's resolved and visited passed along
RECURSIVE resolve_recursive(_, _)
RECURSIVE resolve_each(_, _)

\* the for loop of lines 92-93
resolve_each(deps, acc) ==
    IF deps = <<>>
    THEN acc
    ELSE resolve_each(Tail(deps), resolve_recursive(Head(deps), acc))

resolve_recursive(ing_id, acc) ==
    LET inside == [acc EXCEPT !.depth = acc.depth + 1,
                              !.deepest = IF @ < acc.depth + 1
                                          THEN acc.depth + 1 ELSE @]
    IN IF ing_id \in acc.visited
       THEN [inside EXCEPT !.depth = acc.depth]
       ELSE LET entered == [inside EXCEPT !.visited = @ \cup {ing_id}]
                after == resolve_each(get_dependencies(ing_id), entered)
            IN [after EXCEPT !.resolved = Append(@, ing_id), !.depth = acc.depth]

\* lines 82-83: resolved = [], visited = set(); depth counts the calls of
\* resolve_recursive that are on the stack, deepest is its maximum
NewTraversal == [resolved |-> <<>>, visited |-> {}, depth |-> 0, deepest |-> 0]

Reverse(s) == [i \in 1..Len(s) |-> s[Len(s) + 1 - i]]

\* a variant that puts each id in front of the list instead of at its end
resolve_dependencies_Prepending(ingredient_id) ==
    LET done == resolve_recursive(ingredient_id, NewTraversal)
    IN Tail(Reverse(done.resolved))

\* a variant that returns resolved without cutting off its last element
resolve_dependencies_WithSelf(ingredient_id) ==
    resolve_recursive(ingredient_id, NewTraversal).resolved

\* resolve_dependencies: resolved[:-1]
resolve_dependencies(ingredient_id) ==
    LET done == resolve_recursive(ingredient_id, NewTraversal)
    IN SubSeq(done.resolved, 1, Len(done.resolved) - 1)

\* the interpreter raises RecursionError when the calls of resolve_recursive
\* on the stack outnumber its recursion limit
RaisesRecursionError(ingredient_id) ==
    resolve_recursive(ingredient_id, NewTraversal).deepest > RecursionLimit

InSeq(x, s) == \E i \in 1..Len(s) : s[i] = x

\* check_conflicts: the set of conflict descriptions
check_conflicts(ingredient_id) ==
    (IF InSeq(ingredient_id, resolve_dependencies(ingredient_id))
     THEN {<<"Circular dependency detected for", ingredient_id>>}
     ELSE {})
    \cup {<<"Missing dependency", get_dependencies(ingredient_id)[i]>> :
            i \in {k \in 1..Len(get_dependencies(ingredient_id)) :
                     get_ingredient(get_dependencies(ingredient_id)[k]) = NoneV}}

NoDepCall == [op |-> "none"]

NoTrackerCall == dep_call = NoDepCall

\* the stores the tracker is called on: rows that differ in id and
\* dependencies only
DepIds == {<<"a">>, <<"a", ".">>, <<".", "a">>}

DepLists == UNION {[1..n -> DepIds] : n \in 0..MaxDeps}

DepStores ==
    UNION {[held -> DepLists] : held \in SUBSET DepIds}

StoreOf(deps_of) ==
    [ingredient_id \in DOMAIN deps_of |->
        [BaseIngredient EXCEPT !.id = ingredient_id,
                               !.dependencies = deps_of[ingredient_id]]]

\* get_dependents: the ids of the stored ingredients that list this one
get_dependents(ingredient_id) ==
    {ingredient.id : ingredient \in
        {i \in list_ingredients : InSeq(ingredient_id, i.dependencies)}}

\* get_dependency_info: the DependencyInfo, or None for an id not in the store
get_dependency_info(ingredient_id) ==
    IF get_ingredient(ingredient_id) = NoneV
    THEN NoneV
    ELSE [ingredient_id |-> ingredient_id,
          dependencies |-> get_dependencies(ingredient_id),
          dependents |-> get_dependents(ingredient_id),
          conflicts |-> check_conflicts(ingredient_id)]

\* how a call of the tracker ended: with its return value, or raising
DepCall(op, ingredient_id, raised, result) ==
    [op |-> op, id |-> ingredient_id, raised |-> raised, result |-> result]

\* DependencyTracker.resolve_dependencies(ingredient_id); every
\* get_ingredient of the call reads the database, and raises if it cannot;
\* no line of the tracker catches an exception
ResolveDependencies ==
    \E ingredient_id \in DepIds, read_ok \in BOOLEAN :
        /\ dep_call' =
              IF ~read_ok \/ RaisesRecursionError(ingredient_id)
              THEN DepCall("resolve_dependencies", ingredient_id, TRUE, <<>>)
              ELSE DepCall("resolve_dependencies", ingredient_id, FALSE,
                           resolve_dependencies(ingredient_id))
        /\ UNCHANGED <<store, last_call>>
        /\ UNCHANGED not_tracker_vars

\* DependencyTracker.check_conflicts(ingredient_id)
CheckConflicts ==
    \E ingredient_id \in DepIds, read_ok \in BOOLEAN :
        /\ dep_call' =
              IF ~read_ok \/ RaisesRecursionError(ingredient_id)
              THEN DepCall("check_conflicts", ingredient_id, TRUE, {})
              ELSE DepCall("check_conflicts", ingredient_id, FALSE,
                           check_conflicts(ingredient_id))
        /\ UNCHANGED <<store, last_call>>
        /\ UNCHANGED not_tracker_vars

\* DependencyTracker.get_dependency_info(ingredient_id): an id the store
\* does not hold is answered before anything is resolved
GetDependencyInfo ==
    \E ingredient_id \in DepIds, read_ok \in BOOLEAN :
        /\ dep_call' =
              IF \/ ~read_ok
                 \/ /\ get_ingredient(ingredient_id) # NoneV
                    /\ RaisesRecursionError(ingredient_id)
              THEN DepCall("get_dependency_info", ingredient_id, TRUE, NoneV)
              ELSE DepCall("get_dependency_info", ingredient_id, FALSE,
                           get_dependency_info(ingredient_id))
        /\ UNCHANGED <<store, last_call>>
        /\ UNCHANGED not_tracker_vars

-----------------------------------------------------------------------------
(* AccessControl (kitchen/pantry/core/access_control.py)                    *)

\* the values of the Permission enum
Permission == {"read", "write", "delete", "admin"}

\* a variant of _is_authenticated that takes every non-empty id
is_authenticated_NonEmpty(user_id) == user_id # ""

\* _is_authenticated
is_authenticated(user_id) == user_id # "" /\ user_id # "anonymous"

\* _is_admin
is_admin(user_id) == user_id \in {"admin", "root", "system"}

\* a variant of can_access without the rule for public ingredients
can_access_NoPublicRule(user_id, ingredient_id, permission) ==
    LET ingredient == get_ingredient(ingredient_id)
    IN IF ingredient = NoneV THEN FALSE
       ELSE IF is_admin(user_id) THEN TRUE
       ELSE IF ingredient.access_level = "protected" THEN is_authenticated(user_id)
       ELSE IF ingredient.access_level = "admin" THEN is_admin(user_id)
       ELSE FALSE

\* a variant of can_access without the rule for admin users
can_access_NoAdminRule(user_id, ingredient_id, permission) ==
    LET ingredient == get_ingredient(ingredient_id)
    IN IF ingredient = NoneV THEN FALSE
       ELSE IF ingredient.access_level = "public" /\ permission = "read" THEN TRUE
       ELSE IF ingredient.access_level = "protected" THEN is_authenticated(user_id)
       ELSE IF ingredient.access_level = "admin" THEN is_admin(user_id)
       ELSE FALSE

\* AccessControl.can_access
can_access(user_id, ingredient_id, permission) ==
    LET ingredient == get_ingredient(ingredient_id)
    IN IF ingredient = NoneV THEN FALSE
       ELSE IF ingredient.access_level = "public" /\ permission = "read" THEN TRUE
       ELSE IF is_admin(user_id) THEN TRUE
       ELSE IF ingredient.access_level = "protected" THEN is_authenticated(user_id)
       ELSE IF ingredient.access_level = "admin" THEN is_admin(user_id)
       ELSE FALSE

\* AccessControl.get_accessible_ingredients
get_accessible_ingredients(user_id, permission) ==
    {ingredient \in list_ingredients : can_access(user_id, ingredient.id, permission)}

\* how a call of AccessControl ended; result is the bool, or the list of
\* get_accessible_ingredients
AccessCall(op, user_id, ingredient_id, permission, raised, result) ==
    [op |-> op, user_id |-> user_id, ingredient_id |-> ingredient_id,
     permission |-> permission, raised |-> raised, result |-> result]

\* the line audit_access writes
AuditRecord(user_id, ingredient_id, permission, granted) ==
    [user |-> user_id, ingredient |-> ingredient_id, permission |-> permission,
     granted |-> granted]

NoAccessCall == [op |-> "none"]

NewAccessControl ==
    /\ ac_call = NoAccessCall
    /\ audit_log = <<>>

\* the callers, the stores and the requests of the calls
UserIds == {"", "anonymous", "developer", "admin", "root", "system"}

AcIds == {<<"a", ".">>, <<".", "a">>}

AccessStores == UNION {[held -> AccessLevel] : held \in SUBSET AcIds}

LevelStoreOf(level_of) ==
    [ingredient_id \in DOMAIN level_of |->
        [BaseIngredient EXCEPT !.id = ingredient_id,
                               !.access_level = level_of[ingredient_id]]]

AuditedUserIds == {"developer"}

AuditedPermissions == {"read"}

\* AccessControl.can_access(user_id, ingredient_id, permission); the
\* get_ingredient of line 59 raises if it cannot read the database
CanAccess ==
    \E user_id \in UserIds, ingredient_id \in AcIds, permission \in Permission,
       read_ok \in BOOLEAN :
        /\ ac_call' = AccessCall("can_access", user_id, ingredient_id, permission,
                          ~read_ok,
                          read_ok /\ can_access(user_id, ingredient_id, permission))
        /\ UNCHANGED <<audit_log, store, last_call>>
        /\ UNCHANGED not_access_vars

\* AccessControl.validate_access(request)
ValidateAccess ==
    \E user_id \in UserIds, ingredient_id \in AcIds, permission \in Permission,
       read_ok \in BOOLEAN :
        /\ ac_call' = AccessCall("validate_access", user_id, ingredient_id, permission,
                          ~read_ok,
                          read_ok /\ can_access(user_id, ingredient_id, permission))
        /\ UNCHANGED <<audit_log, store, last_call>>
        /\ UNCHANGED not_access_vars

\* AccessControl.get_accessible_ingredients(user_id, permission)
GetAccessibleIngredients ==
    \E user_id \in UserIds, permission \in Permission, read_ok \in BOOLEAN :
        /\ ac_call' = AccessCall("get_accessible_ingredients", user_id, <<>>,
                          permission, ~read_ok,
                          IF read_ok
                          THEN get_accessible_ingredients(user_id, permission)
                          ELSE {})
        /\ UNCHANGED <<audit_log, store, last_call>>
        /\ UNCHANGED not_access_vars

\* AccessControl.audit_access(user_id, ingredient_id, permission, granted)
AuditAccess ==
    \E user_id \in AuditedUserIds, ingredient_id \in AcIds,
       permission \in AuditedPermissions, granted \in BOOLEAN :
        /\ Len(audit_log) < MaxAudit
        /\ audit_log' = Append(audit_log,
                            AuditRecord(user_id, ingredient_id, permission, granted))
        /\ UNCHANGED <<ac_call, store, last_call>>
        /\ UNCHANGED not_access_vars

-----------------------------------------------------------------------------
(* DiscoveryEngine (kitchen/pantry/core/discovery_engine.py)                *)
(*                                                                          *)
(* The tree under the one configured discovery path: whether the path       *)
(* exists, and its *.json files, each with the name of its parent directory *)
(* and what open and json.load make of it.                                  *)

FileNames == {<<"f", i>> : i \in 1..MaxFiles}

ParentDirs == {"tools", "misc"}

RequiredFields == {"id", "name", "version", "category"}

\* kind: "unreadable" (open raises), "not json" (json.load raises), "list"
\* (a JSON list of the four field names), "dict"
FileVariants ==
    {[dir |-> "misc", kind |-> k, keys |-> {}, id |-> "", category |-> ""] :
        k \in {"unreadable", "not json"}}
    \cup {[dir |-> "misc", kind |-> "list", keys |-> RequiredFields, id |-> "",
           category |-> ""]}
    \cup {[dir |-> "misc", kind |-> "dict", keys |-> RequiredFields \ {"name"},
           id |-> "x.a", category |-> "tools"]}
    \cup {[dir |-> "misc", kind |-> "dict", keys |-> RequiredFields, id |-> i,
           category |-> "tools"] : i \in {"x.a", "x.b"}}
    \cup {[dir |-> dir, kind |-> "dict", keys |-> RequiredFields, id |-> "x.a",
           category |-> "not a category"] : dir \in ParentDirs}
    \cup {[dir |-> dir, kind |-> "dict", keys |-> RequiredFields \ {"category"},
           id |-> "x.a", category |-> ""] : dir \in ParentDirs}

FileSystems ==
    [exists : {TRUE},
     files : UNION {[names -> FileVariants] : names \in SUBSET FileNames}]
    \cup {[exists |-> FALSE, files |-> <<>>]}

\* _is_ingredient_file: all(field in data for field in required_fields)
is_ingredient_file(file) == RequiredFields \subseteq file.keys

\* _extract_category: the category named in the data, else the one named by
\* the parent directory, else TASKS
extract_category(file) ==
    IF "category" \in file.keys /\ file.category \in IngredientCategory
    THEN file.category
    ELSE IF file.dir \in IngredientCategory THEN file.dir
    ELSE "tasks"

\* _analyze_file: the DiscoveryResult, or None; data['id'] of a list raises
\* TypeError, caught at line 112
analyze_file(file_path, file) ==
    IF file.kind \in {"unreadable", "not json"} THEN NoneV
    ELSE IF ~is_ingredient_file(file) THEN NoneV
    ELSE IF file.kind = "list" THEN NoneV
    ELSE [ingredient_id |-> file.id, file_path |-> file_path,
          category |-> extract_category(file), auto_registered |-> FALSE]

\* _scan_directory: the results of the files under the directory
scan_directory(tree) ==
    {analyze_file(<<tree.files[name].dir, name>>, tree.files[name]) :
        name \in DOMAIN tree.files} \ {NoneV}

\* discover_ingredients: paths that do not exist are skipped
discover_ingredients(tree) ==
    IF tree.exists THEN scan_directory(tree) ELSE {}

\* a variant in which a file is removed once it has been analyzed
AfterScan_Consumed(tree) ==
    [tree EXCEPT !.files = <<>>]

\* the tree after a scan: the files are opened with mode 'r' and nothing is
\* written
AfterScan(tree) == tree

NewDiscovery ==
    /\ fs = [exists |-> FALSE, files |-> <<>>]
    /\ fs_version = 0
    /\ disc_runs = <<>>

\* DiscoveryEngine.discover_ingredients()
DiscoverIngredients ==
    /\ Len(disc_runs) < MaxDiscoveries
    /\ disc_runs' = Append(disc_runs, [fs_version |-> fs_version,
                                       results |-> discover_ingredients(fs)])
    /\ fs' = AfterScan(fs)
    /\ UNCHANGED <<fs_version, store, last_call>>
    /\ UNCHANGED not_discovery_vars

\* the environment writes, replaces or removes something under the path
ChangeFiles ==
    /\ fs_version < MaxFsChanges
    /\ \E tree \in FileSystems :
        /\ tree # fs
        /\ fs' = tree
    /\ fs_version' = fs_version + 1
    /\ UNCHANGED <<disc_runs, store, last_call>>
    /\ UNCHANGED not_discovery_vars

-----------------------------------------------------------------------------
(* RecipeParser (kitchen/core/recipe_parser.py)                             *)
(*                                                                          *)
(* The file as json.load returns it: a dict with some of the keys of the    *)
(* Recipe model, a value that is no dict, or no JSON at all.                *)

RecipeFields == {"name", "description", "version", "steps"}

\* a step dict of the file; a key the file leaves out is Absent
ParsedStepDocs ==
    [name : {"s1", "s2", Absent},
     ingredient : {"test_tasks.add", Absent},
     on_failure : OnFailureValues]

ParsedStepSeqs == UNION {[1..n -> ParsedStepDocs] : n \in 0..MaxParsedSteps}

RecipeFiles ==
    {[kind |-> "not json"], [kind |-> "list"]}
    \cup {file \in [kind : {"dict"}, keys : SUBSET RecipeFields, steps : ParsedStepSeqs] :
            "steps" \notin file.keys => file.steps = <<>>}

\* class Step: name and ingredient are required, on_failure is validated
StepValidationErrors(steps) ==
    {<<i, "name">> : i \in {j \in DOMAIN steps : steps[j].name = Absent}}
    \cup {<<i, "ingredient">> : i \in {j \in DOMAIN steps : steps[j].ingredient = Absent}}
    \cup {<<i, "on_failure">> :
            i \in {j \in DOMAIN steps : steps[j].on_failure \notin {Absent, "abort", "continue"}}}

\* class Recipe: name, description and steps are required
RecipeValidationErrors(data) ==
    {<<0, field>> : field \in {"name", "description", "steps"} \ data.keys}
    \cup StepValidationErrors(data.steps)

\* Step(**step): the defaults filled in
StepOf(step) ==
    [name |-> step.name,
     ingredient |-> step.ingredient,
     params |-> <<>>,
     on_failure |-> IF step.on_failure = Absent THEN "abort" ELSE step.on_failure]

\* Recipe(**data)
RecipeOf(data) ==
    [version |-> IF "version" \in data.keys THEN "file" ELSE "1.0.0",
     steps |-> [i \in DOMAIN data.steps |-> StepOf(data.steps[i])]]

\* RecipeParser.parse: the Recipe, or the exception it raises
ParseOutcome(data) ==
    CASE data.kind = "not json" -> [kind |-> "raised", exc |-> "ValueError"]
      [] data.kind = "list" -> [kind |-> "raised", exc |-> "TypeError"]
      [] data.kind = "dict" ->
            IF RecipeValidationErrors(data) # {}
            THEN [kind |-> "raised", exc |-> "ValueError"]
            ELSE [kind |-> "returned", recipe |-> RecipeOf(data)]

\* no parser is constructed
NoParse ==
    /\ parse_data = [kind |-> "not json"]
    /\ parse_outcome = Pending

\* parser.parse()
Parse ==
    /\ parse_outcome = Pending
    /\ parse_outcome' = ParseOutcome(parse_data)
    /\ UNCHANGED parse_data
    /\ UNCHANGED not_parser_vars

-----------------------------------------------------------------------------
(* ContextManager (kitchen/pantry/operations/context_manager.py)            *)
(*                                                                          *)
(* A context is a function from its keys to their values.                   *)

\* the loop of prune_context over keep_keys, pruned being the dict so far
RECURSIVE PruneLoop(_, _, _)
PruneLoop(context, keep_keys, pruned) ==
    IF keep_keys = <<>> THEN pruned
    ELSE PruneLoop(context, Tail(keep_keys),
                   IF Head(keep_keys) \in DOMAIN context
                   THEN Put(pruned, Head(keep_keys), context[Head(keep_keys)])
                   ELSE pruned)

\* a variant that returns the context it was given
prune_context_KeepAll(context, keep_keys) == context

\* ContextManager.prune_context: the dict it returns
prune_context(context, keep_keys) == PruneLoop(context, keep_keys, <<>>)

\* the context argument after prune_context returned: the method only reads it
ContextAfterPrune(context, keep_keys) == context

\* lines 125 and 134: ['recipe_id', 'timestamp', 'data']
KeepKeysOfRun == <<(<<"recipe_id">>), (<<"timestamp">>), (<<"data">>)>>

\* the context after execute_step(step, context): the step is added to a
\* copy of the context (lines 156-157), the context itself is only read
ContextAfterStep(context) == context

\* the arguments of the prune_context calls made from outside
CmKeys == {<<"recipe_id">>, <<"data">>, <<"operations">>}

CmValues == {"v1", "v2"}

CmContexts == UNION {[keys -> CmValues] : keys \in SUBSET CmKeys}

KeepKeyLists ==
    UNION {[1..n -> {<<"recipe_id">>, <<"data">>, <<"step">>}] : n \in 0..MaxKeepKeys}

PruneCall(context, keep_keys) ==
    [op |-> "prune_context", context |-> context, keep_keys |-> keep_keys,
     pruned |-> prune_context(context, keep_keys),
     context_after |-> ContextAfterPrune(context, keep_keys)]

NoPruneCall == [op |-> "none"]

\* ContextManager.__init__, no call made
NewContextManager ==
    /\ cm_pc = "idle"
    /\ cm_context = <<>>
    /\ cm_steps = 0
    /\ cm_results = 0
    /\ cm_prune_call = NoPruneCall

\* manager.prune_context(context, keep_keys), called from outside a run
PruneContext ==
    /\ cm_pc # "loop"
    /\ \E context \in CmContexts, keep_keys \in KeepKeyLists :
          cm_prune_call' = PruneCall(context, keep_keys)
    /\ UNCHANGED <<cm_pc, cm_context, cm_steps, cm_results>>
    /\ UNCHANGED not_context_vars

\* execute_recipe, lines 112-128: the recipe is loaded and the context built,
\* and pruned if validate_context_size finds it too large.  A file that
\* cannot be opened or parsed takes the call to the except clause, whose
\* recipe.get raises UnboundLocalError.
CmExecuteRecipeBegin ==
    /\ cm_pc = "idle"
    /\ \E loaded \in BOOLEAN, steps \in 0..MaxCmSteps, too_large \in BOOLEAN :
          IF ~loaded
          THEN /\ cm_pc' = "raised"
               /\ UNCHANGED <<cm_context, cm_steps, cm_results, cm_prune_call>>
          ELSE LET context == BuildContext("r1", 0) IN
               /\ cm_context' = IF too_large
                                THEN prune_context(context, KeepKeysOfRun)
                                ELSE context
               /\ cm_prune_call' = IF too_large
                                   THEN PruneCall(context, KeepKeysOfRun)
                                   ELSE cm_prune_call
               /\ cm_steps' = steps
               /\ cm_results' = 0
               /\ cm_pc' = IF steps = 0 THEN "done" ELSE "loop"
    /\ UNCHANGED not_context_vars

\* one iteration of the loop, lines 130-134: execute_step, results.append,
\* prune_context
CmExecuteStep ==
    /\ cm_pc = "loop"
    /\ LET context == ContextAfterStep(cm_context) IN
       /\ cm_context' = prune_context(context, KeepKeysOfRun)
       /\ cm_prune_call' = PruneCall(context, KeepKeysOfRun)
    /\ cm_results' = cm_results + 1
    /\ cm_steps' = cm_steps - 1
    /\ cm_pc' = IF cm_steps = 1 THEN "done" ELSE "loop"
    /\ UNCHANGED not_context_vars

-----------------------------------------------------------------------------
(* Claims about the Kitchen Engine's runs.                                  *)

\* the run whose locals `run` holds has returned
Finished == pc = "idle" /\ ret.status = "success"

\* Step.on_failure: 'abort' is the default of a step that omits the key
AbortPolicy(step) == step.on_failure \in {Absent, "abort"}

ErrorAt(results, k) == results[k].status = "error"

C2_ContinueRunsOn ==
    (pc \in {"update", "idle"} /\
     \E k \in DOMAIN run.results :
        ErrorAt(run.results, k) /\ run.results[k].step.on_failure = "continue")
    => /\ Len(run.results) = Len(run.recipe.steps)
       /\ Finished => ret.final_status = "completed_with_failures"

\* C3: after each step of a run, the run's context holds
\* steps.<name>.output and steps.<name>.success for that step.
C3_ContextHoldsStepKeys ==
    \A k \in DOMAIN run.results :
        LET name == run.results[k].step.name IN
        name # Absent =>
            {<<"steps", name, "output">>, <<"steps", name, "success">>}
                \subseteq DOMAIN run.context

C4_WitnessEmpty ==
    Finished /\ run.recipe.steps = <<>> /\ ret.final_status = "completed"

\* what the recipe schema forbids: a missing name, description or steps, a
\* step without a name or an ingredient reference, an on_failure that is
\* neither abort nor continue
SchemaViolations(doc) == Defects(doc) \ {<<"top", "id">>}

Terminal(entry) == entry.status \in {"completed", "failed", "stopped"}

PrunedKeys == {<<"recipe_id">>, <<"timestamp">>, <<"data">>}

-----------------------------------------------------------------------------
(* Claims about the Step Executor.                                          *)

ExDone == ex_outcome # Pending

ExFound == GetIngredient(ex_step.ingredient) # "None"

\* what the ingredient call of this step does, when the step gets that far
ExCall ==
    LET f == GetIngredient(ex_step.ingredient)
    IN Call(f, ValidParams(f, ResolveParams(ex_step.params, ex_context).resolved))

ExCalls == ExFound /\ Unresolved(ex_step.params, ex_context) = {}

ExFailedResult ==
    /\ ex_outcome.kind = "returned"
    /\ ex_outcome.success = FALSE
    /\ ex_outcome.message # ""

\* C5 as claimed: whenever the ingredient is not found or its call raises any
\* exception, execute_step returns a failed StepResult and raises nothing.
C5_AnyExceptionBecomesResult ==
    ExDone =>
        ((~ExFound \/ (ExCalls /\ ExCall.raised \in AllRaised)) => ExFailedResult)

\* C5 as amended: whenever the ingredient is not found or its call raises an
\* exception derived from Exception, execute_step returns a failed StepResult
\* with a message; only an exception outside Exception leaves execute_step.
C5_ExceptionBecomesResult ==
    ExDone =>
        /\ (~ExFound \/ (ExCalls /\ ExCall.raised \in ExceptionClasses)) => ExFailedResult
        /\ ex_outcome.kind = "raised" =>
              ExCalls /\ ex_outcome.exc = ExCall.raised /\ ex_outcome.exc \notin ExceptionClasses

C5_Witness ==
    /\ ExDone
    /\ ex_step.ingredient = "test_tasks.fail_task"
    /\ ExCall.raised = "ValueError"
    /\ ExFailedResult
    /\ ex_outcome.invoked

\* C6: a parameter {{path}} whose path is absent from the context fails that
\* step: a failed StepResult reporting the resolution error, the ingredient
\* not invoked, nothing raised, the context left as it was.
C6_UnresolvedFailsTheStep ==
    (ExDone /\ Unresolved(ex_step.params, ex_context) # {}) =>
        /\ ExFailedResult
        /\ ~ex_outcome.invoked
        /\ ex_outcome.context = ex_context
        /\ ExFound => ex_outcome.message = "Failed to resolve context key"

C6_Witness ==
    /\ ExDone
    /\ ex_step.ingredient = "test_tasks.add"
    /\ "a" \in DOMAIN ex_step.params
    /\ ex_step.params["a"] = StrV(<<"{", "{", "steps.unknown.output", "}", "}">>)
    /\ <<"steps.s1.output">> \in DOMAIN ex_context
    /\ ex_outcome.kind = "returned"
    /\ ~ex_outcome.success
    /\ ~ex_outcome.invoked

\* the delimited form: '{{', a path between optional blanks, '}}'; a path
\* has no brace and no blank in it
IsDelimitedForm(value) ==
    /\ value.t = "str"
    /\ Len(value.v) >= 5
    /\ StartsWith(value.v, <<"{", "{">>)
    /\ EndsWith(value.v, <<"}", "}">>)
    /\ LET path == Strip(SubSeq(value.v, 3, Len(value.v) - 2), {" "})
       IN /\ path # <<>>
          /\ \A i \in 1..Len(path) : path[i] \notin {"{", "}", " "}

\* C25: a parameter value is looked up in the context only when the whole
\* value is the delimited form; every other value reaches the ingredient
\* unchanged, and the call leaves the context and the step's parameters as
\* they were.
C25_OnlyWholeReferencesResolved ==
    (ExDone /\ ExFound) =>
        LET resolution == ResolveParams(ex_step.params, ex_context)
            literals == {key \in DOMAIN ex_step.params :
                            ~IsDelimitedForm(ex_step.params[key])}
        IN /\ literals \cap Unresolved(ex_step.params, ex_context) = {}
           /\ resolution.ok =>
                \A key \in literals :
                    resolution.resolved[key] = ex_step.params[key]
           /\ (literals = DOMAIN ex_step.params /\ ex_outcome.kind = "returned") =>
                ex_outcome.message # "Failed to resolve context key"
           /\ ex_outcome.context = ex_context

-----------------------------------------------------------------------------
(* Claims about the pantry's registration.                                  *)

\* the id has an uppercase letter or a space in it
HasUpperOrSpace(ingredient_id) ==
    \E i \in 1..Len(ingredient_id) : ingredient_id[i] \in UpperChars \cup {" "}

\* C8: when validation reports at least one error, and so for every id with
\* an uppercase letter or a space in it, PantrySystem.register_ingredient
\* returns False and leaves the store exactly as it was.
C8_ValidatesBeforePersisting ==
    [][(/\ last_call'.op = "system"
        /\ last_call'.validation # "raised"
        /\ \/ ValidateIngredientErrors(last_call'.ingredient) # {}
           \/ HasUpperOrSpace(last_call'.ingredient.id))
       => (last_call'.result = "False" /\ store' = store)]_vars

C8_Witness ==
    /\ last_call.op = "system"
    /\ last_call.validation = "invalid"
    /\ HasUpperOrSpace(last_call.ingredient.id)
    /\ last_call.result = "False"
    /\ store # <<>>

\* C9: PantrySystem.register_ingredient always ends by returning a boolean,
\* never by raising; when it returns True get(id) returns the ingredient and
\* list() includes it.
C9_RegisterReturnsBoolean ==
    last_call.op = "system" =>
        /\ last_call.result \in {"True", "False"}
        /\ last_call.result = "True" =>
              /\ get_ingredient(last_call.ingredient.id) = last_call.ingredient
              /\ last_call.ingredient \in list_ingredients

\* C10: registering a valid ingredient under an id the store already holds,
\* with no I/O failure, succeeds; afterwards get(id) returns the newly
\* registered record and the store holds the same ids as before.
C10_ReRegistrationOverwrites ==
    [][(/\ last_call'.op \in {"manager", "system"}
        /\ ~last_call'.io_failed
        /\ ValidateIngredientErrors(last_call'.ingredient) = {}
        /\ last_call'.ingredient.id \in DOMAIN store)
       => /\ last_call'.result = "True"
          /\ store'[last_call'.ingredient.id] = last_call'.ingredient
          /\ DOMAIN store' = DOMAIN store]_vars

\* C11: every ingredient the store holds passes validation with no error,
\* whatever registration calls produced the state.
C11_StoreHoldsOnlyValidated ==
    \A ingredient_id \in DOMAIN store :
        ValidateIngredientErrors(store[ingredient_id]) = {}

\* <int>.<int>[.<int>...]: two or more components, each of them digits
IsIntDotInt(version) ==
    LET parts == Split(version)
    IN Len(parts) >= 2 /\ \A i \in 1..Len(parts) : IsDigit(parts[i])

VersionErrors == {"Missing ingredient version", "Invalid version format"}

\* C27: validation reports a version error exactly for the versions that are
\* not <int>.<int>[.<int>...], and an ingredient with a version error is
\* invalid.
C27_VersionErrorIffMalformed ==
    (last_call.op = "system" /\ last_call.validation # "raised") =>
        LET errors == ValidateIngredientErrors(last_call.ingredient)
        IN /\ (errors \cap VersionErrors # {})
                <=> ~IsIntDotInt(last_call.ingredient.version)
           /\ (errors \cap VersionErrors # {}) => last_call.validation = "invalid"

-----------------------------------------------------------------------------
(* Claims about the DependencyTracker.                                      *)

\* x depends on y directly
DependsOn(x, y) == InSeq(y, get_dependencies(x))

\* x depends on y through one or more dependency edges
RECURSIVE ReachesWithin(_, _, _)
ReachesWithin(x, y, n) ==
    \/ DependsOn(x, y)
    \/ /\ n > 1
       /\ \E z \in DepIds : DependsOn(x, z) /\ ReachesWithin(z, y, n - 1)

Reaches(x, y) == ReachesWithin(x, y, Cardinality(DepIds))

Acyclic == \A x \in DepIds : ~Reaches(x, x)

\* C12: on an acyclic dependency graph resolve_dependencies(A) is in
\* dependency order: when X depends on Y and both are in the result, Y comes
\* before X; every id A depends on is in the result, once.
C12_DependencyOrder ==
    (dep_call.op = "resolve_dependencies" /\ ~dep_call.raised /\ Acyclic) =>
        LET r == dep_call.result
        IN /\ \A i, j \in 1..Len(r) : Reaches(r[i], r[j]) => j < i
           /\ \A y \in DepIds : Reaches(dep_call.id, y) => InSeq(y, r)
           /\ \A i, j \in 1..Len(r) : r[i] = r[j] => i = j

C12_Witness ==
    /\ dep_call.op = "resolve_dependencies"
    /\ ~dep_call.raised
    /\ Acyclic
    /\ Len(dep_call.result) = 2
    /\ DependsOn(dep_call.id, dep_call.result[2])
    /\ DependsOn(dep_call.result[2], dep_call.result[1])

\* C13: check_conflicts(id) reports a circular dependency whenever id is
\* reachable from itself through one or more dependency edges.
C13_CycleReported ==
    (dep_call.op = "check_conflicts" /\ ~dep_call.raised
        /\ Reaches(dep_call.id, dep_call.id)) =>
        <<"Circular dependency detected for", dep_call.id>> \in dep_call.result

\* the ids reachable from the call's id, other than the id itself
ReachableFromId ==
    {y \in DepIds : Reaches(dep_call.id, y)} \ {dep_call.id}

\* C23: on any dependency graph resolve_dependencies(id) holds exactly the
\* ids reachable from id through one or more edges, other than id itself,
\* each of them once.
C23_ExactlyReachable ==
    (dep_call.op = "resolve_dependencies" /\ ~dep_call.raised) =>
        LET r == dep_call.result
        IN /\ {r[i] : i \in 1..Len(r)} = ReachableFromId
           /\ \A i, j \in 1..Len(r) : r[i] = r[j] => i = j

C23_Witness ==
    /\ dep_call.op = "resolve_dependencies"
    /\ ~dep_call.raised
    /\ Reaches(dep_call.id, dep_call.id)
    /\ Len(dep_call.result) = 1
    /\ dep_call.result[1] \notin DOMAIN store

\* C24: resolve_dependencies, check_conflicts and get_dependency_info return
\* a result for every store, with self-loops, cycles and ids the store does
\* not hold; none of them raises.
C24_TrackerNeverRaises ==
    dep_call.op # "none" => ~dep_call.raised

-----------------------------------------------------------------------------
(* Claims about AccessControl.                                              *)

\* a call that evaluated can_access once and returned its decision
Decided ==
    /\ ac_call.op \in {"can_access", "validate_access"}
    /\ ~ac_call.raised

\* the access level of the ingredient the call was about, if the store holds it
LevelIs(level) ==
    /\ ac_call.ingredient_id \in DOMAIN store
    /\ store[ac_call.ingredient_id].access_level = level

AdminIdentities == {"admin", "root", "system"}

\* C14: READ on a public ingredient is granted to every caller, anonymous
\* and the empty identity included.
C14_PublicReadable ==
    (Decided /\ LevelIs("public") /\ ac_call.permission = "read") =>
        ac_call.result = TRUE

C14_Witness ==
    /\ Decided
    /\ LevelIs("public")
    /\ ac_call.permission = "read"
    /\ ac_call.user_id \in {"", "anonymous"}
    /\ ac_call.result = TRUE

\* C15: an admin identity is granted every permission on every ingredient
\* the store holds, whatever its access level.
C15_AdminAllowed ==
    (Decided /\ ac_call.user_id \in AdminIdentities
        /\ ac_call.ingredient_id \in DOMAIN store) =>
        ac_call.result = TRUE

C15_Witness ==
    /\ Decided
    /\ ac_call.user_id = "root"
    /\ LevelIs("public")
    /\ ac_call.permission = "write"
    /\ ac_call.result = TRUE

\* C16: a caller that is not an admin identity gets no permission on an
\* admin-level ingredient, an anonymous or empty caller gets none on a
\* protected one, and a request that matches no allow rule is denied.
C16_Denied ==
    Decided =>
        /\ (LevelIs("admin") /\ ac_call.user_id \notin AdminIdentities)
              => ac_call.result = FALSE
        /\ (LevelIs("protected") /\ ac_call.user_id \in {"", "anonymous"})
              => ac_call.result = FALSE
        /\ (/\ ~(LevelIs("public") /\ ac_call.permission = "read")
            /\ ac_call.user_id \notin AdminIdentities
            /\ ~(LevelIs("protected") /\ ac_call.user_id \notin {"", "anonymous"}))
              => ac_call.result = FALSE

C16_Witness ==
    /\ Decided
    /\ LevelIs("protected")
    /\ ac_call.user_id = "anonymous"
    /\ ac_call.permission = "read"
    /\ ac_call.result = FALSE

\* C17: every decision of can_access leaves an audit record with the
\* caller, the ingredient, the permission and the outcome.
C17_DecisionsAudited ==
    Decided =>
        \E i \in 1..Len(audit_log) :
            audit_log[i] = AuditRecord(ac_call.user_id, ac_call.ingredient_id,
                                       ac_call.permission, ac_call.result)

\* the order public < protected < admin
LevelRank(level) ==
    CASE level = "public" -> 0
      [] level = "protected" -> 1
      [] level = "admin" -> 2

\* C22: for a fixed caller and permission, a grant on an ingredient implies
\* a grant on every ingredient that differs from it only by a lower access
\* level (and its id).
C22_LevelMonotone ==
    (Decided /\ ac_call.result = TRUE /\ ac_call.ingredient_id \in DOMAIN store) =>
        \A other \in DOMAIN store :
            LevelRank(store[other].access_level)
                < LevelRank(store[ac_call.ingredient_id].access_level)
            => can_access(ac_call.user_id, other, ac_call.permission)

-----------------------------------------------------------------------------
(* Claims about the DiscoveryEngine.                                        *)

\* the discovered ids with their categories
IdsWithCategories(results) ==
    {<<result.ingredient_id, result.category>> : result \in results}

RunsOnThisTree == {i \in DOMAIN disc_runs : disc_runs[i].fs_version = fs_version}

\* C28: every ingredient a discovery reported is registered in the store.
C28_DiscoveredAreRegistered ==
    \A i \in DOMAIN disc_runs :
        \A result \in disc_runs[i].results :
            get_ingredient(result.ingredient_id) # NoneV

\* the descriptors of the tree that have no category
WithoutCategory ==
    {name \in DOMAIN fs.files :
        /\ fs.files[name].kind = "dict"
        /\ fs.files[name].keys = RequiredFields \ {"category"}}

\* C29: a descriptor without a category is still reported, under the category
\* its parent directory names, or under tasks when the directory names none.
C29_AbsentCategoryFallsBack ==
    \A i \in RunsOnThisTree :
        \A name \in WithoutCategory :
            \E result \in disc_runs[i].results :
                /\ result.file_path = <<fs.files[name].dir, name>>
                /\ result.category =
                      IF fs.files[name].dir \in IngredientCategory
                      THEN fs.files[name].dir ELSE "tasks"

-----------------------------------------------------------------------------
(* Claims about the RecipeParser.                                           *)

\* C26: a Recipe that parse returns never has two steps of the same name.
C26_StepNamesUnique ==
    parse_outcome.kind = "returned" =>
        \A i, j \in DOMAIN parse_outcome.recipe.steps :
            parse_outcome.recipe.steps[i].name = parse_outcome.recipe.steps[j].name
                => i = j

-----------------------------------------------------------------------------
(* Claims about the ContextManager.                                         *)

\* the keys a list names
KeysOf(keep_keys) == {keep_keys[i] : i \in DOMAIN keep_keys}

\* C30: prune_context returns exactly the restriction of the context to
\* keep_keys, each key with the value it had, and leaves the context it was
\* given as it was; a run that prunes after each step holds no more keys
\* than the list of kept keys has entries, whatever the number of steps.
C30_PruneIsRestriction ==
    /\ cm_prune_call.op = "prune_context" =>
          /\ DOMAIN cm_prune_call.pruned =
                KeysOf(cm_prune_call.keep_keys) \cap DOMAIN cm_prune_call.context
          /\ \A key \in DOMAIN cm_prune_call.pruned :
                cm_prune_call.pruned[key] = cm_prune_call.context[key]
          /\ cm_prune_call.context_after = cm_prune_call.context
    /\ (cm_pc \in {"loop", "done"} /\ cm_results >= 1) =>
          Cardinality(DOMAIN cm_context) <= Len(KeepKeysOfRun)

\* a call that drops a key of the context and is asked for a key the context
\* does not have, after a run of MaxCmSteps steps
C30_Witness ==
    /\ cm_prune_call.op = "prune_context"
    /\ DOMAIN cm_prune_call.context \ KeysOf(cm_prune_call.keep_keys) # {}
    /\ cm_prune_call.keep_keys = <<(<<"data">>), (<<"step">>)>>
    /\ DOMAIN cm_prune_call.pruned = {<<"data">>}
    /\ cm_pc = "done"
    /\ cm_results = MaxCmSteps
    /\ DOMAIN cm_context = KeysOf(KeepKeysOfRun)

-----------------------------------------------------------------------------
(* Specifications                                                           *)

InitEngine == NewEngine /\ NoExecutorCall /\ NewPantry /\ NoTrackerCall /\ NewAccessControl /\ NewDiscovery /\ NoParse /\ NewContextManager

NextEngine ==
    \/ Tick
    \/ Start
    \/ ExecuteRecipeBegin
    \/ ExecuteRecipeStep
    \/ ExecuteRecipeFinish
    \/ StopRecipe
    \/ Stop

SpecEngine == InitEngine /\ [][NextEngine]_vars

\* one call of execute_step, its arguments drawn from Steps and Contexts
InitExecutor ==
    /\ ex_step \in Steps
    /\ ex_context \in Contexts
    /\ ex_outcome = Pending
    /\ NewEngine
    /\ NewPantry /\ NoTrackerCall /\ NewAccessControl /\ NewDiscovery
    /\ NoParse
    /\ NewContextManager

NextExecutor ==
    \/ ExecuteStep

SpecExecutor == InitExecutor /\ [][NextExecutor]_vars

\* the pantry: registrations in any order on a fresh store
InitPantry == NewPantry /\ NewEngine /\ NoExecutorCall /\ NoTrackerCall /\ NewAccessControl /\ NewDiscovery /\ NoParse /\ NewContextManager

NextPantry ==
    \/ SystemRegisterIngredient
    \/ ManagerRegisterIngredient

SpecPantry == InitPantry /\ [][NextPantry]_vars

\* the dependency tracker: calls in any order on a store of DepStores
InitTracker ==
    /\ \E deps_of \in DepStores : store = StoreOf(deps_of)
    /\ last_call = NoCall
    /\ NoTrackerCall
    /\ NewEngine /\ NoExecutorCall /\ NewAccessControl /\ NewDiscovery
    /\ NoParse
    /\ NewContextManager

NextTracker ==
    \/ ResolveDependencies
    \/ CheckConflicts
    \/ GetDependencyInfo

SpecTracker == InitTracker /\ [][NextTracker]_vars

\* access control: calls in any order on a store of AccessStores
InitAccess ==
    /\ \E level_of \in AccessStores : store = LevelStoreOf(level_of)
    /\ last_call = NoCall
    /\ NewAccessControl
    /\ NewEngine /\ NoExecutorCall /\ NoTrackerCall /\ NewDiscovery
    /\ NoParse
    /\ NewContextManager

NextAccess ==
    \/ CanAccess
    \/ ValidateAccess
    \/ GetAccessibleIngredients
    \/ AuditAccess

SpecAccess == InitAccess /\ [][NextAccess]_vars

\* discovery: calls and changes of the tree in any order, from any tree
InitDiscovery ==
    /\ fs \in FileSystems
    /\ fs_version = 0
    /\ disc_runs = <<>>
    /\ NewPantry /\ NewEngine /\ NoExecutorCall /\ NoTrackerCall
    /\ NewAccessControl
    /\ NoParse
    /\ NewContextManager

NextDiscovery ==
    \/ DiscoverIngredients
    \/ ChangeFiles

SpecDiscovery == InitDiscovery /\ [][NextDiscovery]_vars

\* the recipe parser: one call of parse on any file of RecipeFiles
InitParser ==
    /\ parse_data \in RecipeFiles
    /\ parse_outcome = Pending
    /\ NewEngine /\ NoExecutorCall /\ NewPantry /\ NoTrackerCall
    /\ NewAccessControl /\ NewDiscovery
    /\ NewContextManager

NextParser ==
    \/ Parse

SpecParser == InitParser /\ [][NextParser]_vars

\* the context manager: prune_context calls and one execute_recipe
InitContext ==
    /\ NewContextManager
    /\ NewEngine /\ NoExecutorCall /\ NewPantry /\ NoTrackerCall
    /\ NewAccessControl /\ NewDiscovery /\ NoParse

NextContext ==
    \/ PruneContext
    \/ CmExecuteRecipeBegin
    \/ CmExecuteStep

SpecContext == InitContext /\ [][NextContext]_vars

====
